---- MODULE Spec2Model ----
(***************************************************************************)
(* A model of SpotifyAnalyzer (src/wrapped.py): the event store filled by  *)
(* load_streaming_history, the five analysis passes, the weighted score,   *)
(* and the rankings printed by generate_reports / print_ranking.           *)
(*                                                                         *)
(* Modelling conventions                                                   *)
(*  - a stream is a record [trackName, artistName, endTime, msPlayed];     *)
(*    endTime is the parsed '%Y-%m-%d %H:%M' text, kept as its five        *)
(*    zero-padded fields; msPlayed = NoMs stands for an absent key;        *)
(*  - a dict is a function whose DOMAIN is the dict's key set; where the   *)
(*    code depends on the insertion order of a dict, that order is kept as *)
(*    a sequence of keys;                                                  *)
(*  - a float quotient is an exact fraction [num, den] in lowest terms;    *)
(*  - an uncaught ZeroDivisionError is the outcome "ZeroDivisionError";    *)
(*  - generate_fun_fact and find_peak_month only turn these values into    *)
(*    text and change none of them; they are left out.                     *)
(***************************************************************************)
EXTENDS Integers, Sequences, FiniteSets, TLC

VARIABLES
    data,          \* the records held by the StreamingHistory_music*.json files
    streams,       \* self.streams
    runs,          \* number of load_streaming_history calls so far
    phase,         \* "new" | "loaded" | "reported", or "ranking" | "printed"
    report,        \* generate_reports: its locals and what it printed
    songs,         \* print_ranking: the keys of songs, in dict order
    sort_key,      \* print_ranking: sort_key, as a map from key to value
    limit,         \* print_ranking: limit
    basic_stats,   \* print_ranking: basic_stats
    sorted_songs   \* print_ranking: sorted_songs

vars == <<data, streams, runs, phase, report, songs, sort_key, limit,
          basic_stats, sorted_songs>>

rankVars == <<songs, sort_key, limit, basic_stats, sorted_songs>>

-----------------------------------------------------------------------------
(* Bounds of the model.                                                    *)

MaxEvents == 4
MaxWeekEvents == 3
MaxRuns == 2
MaxSongs == 3
MaxLimit == 3

(* Program constants.                                                      *)

session_gap_minutes == 30
CompletionMs == 90000
MinPlays == 3
TopN == 10
NoMs == -1

-----------------------------------------------------------------------------
(* Generic helpers.                                                        *)

Min(a, b) == IF a <= b THEN a ELSE b

RECURSIVE Gcd(_, _)
Gcd(a, b) == IF b = 0 THEN a ELSE Gcd(b, a % b)

\* Python's max() over a non-empty collection of integers.
MaxOf(S) == CHOOSE x \in S : \A y \in S : y <= x

Range(f) == {f[x] : x \in DOMAIN f}

\* dict.get(k, default)
Get(d, k, default) == IF k \in DOMAIN d THEN d[k] ELSE default

\* d[k] = v on a dict d
Put(d, k, v) == [x \in DOMAIN d \cup {k} |-> IF x = k THEN v ELSE d[x]]

EmptyDict == [x \in {} |-> 0]

SeqsUpTo(S, n) == UNION {[1..k -> S] : k \in 0..n}

-----------------------------------------------------------------------------
(* Exact fractions for Python's float quotients.                           *)

Rat(n, d) == LET g == Gcd(n, d) IN [num |-> n \div g, den |-> d \div g]

RatZero == [num |-> 0, den |-> 1]

RatLess(a, b) == a.num * b.den < b.num * a.den

RatEq(a, b) == a.num * b.den = b.num * a.den

RatAdd(a, b) == Rat(a.num * b.den + b.num * a.den, a.den * b.den)

RatMul(a, b) == Rat(a.num * b.num, a.den * b.den)

\* a / b with b # 0
RatDiv(a, b) == Rat(a.num * b.den, a.den * b.num)

-----------------------------------------------------------------------------
(* datetime: the proleptic Gregorian calendar as the code uses it.         *)

IsLeap(y) == (y % 4 = 0) /\ ((y % 100 # 0) \/ (y % 400 = 0))

DaysInMonth(y, m) ==
    CASE m \in {1, 3, 5, 7, 8, 10, 12} -> 31
      [] m \in {4, 6, 9, 11} -> 30
      [] OTHER -> IF IsLeap(y) THEN 29 ELSE 28

RECURSIVE DaysBeforeMonth(_, _)
DaysBeforeMonth(y, m) ==
    IF m = 1 THEN 0 ELSE DaysBeforeMonth(y, m - 1) + DaysInMonth(y, m - 1)

DaysBeforeYear(y) ==
    (y - 1) * 365 + ((y - 1) \div 4) - ((y - 1) \div 100) + ((y - 1) \div 400)

\* date.toordinal()
ToOrdinal(t) == DaysBeforeYear(t.year) + DaysBeforeMonth(t.year, t.month) + t.day

\* Monday of ISO week 1 of year y, as an ordinal.
IsoWeek1Monday(y) ==
    LET firstday == DaysBeforeYear(y) + 1
        firstweekday == (firstday + 6) % 7
        week1monday == firstday - firstweekday
    IN IF firstweekday > 3 THEN week1monday + 7 ELSE week1monday

\* date.isocalendar(): <<ISO year, ISO week number>>
IsoCalendar(t) ==
    LET today == ToOrdinal(t)
        w == (today - IsoWeek1Monday(t.year)) \div 7
    IN IF today < IsoWeek1Monday(t.year)
         THEN <<t.year - 1, ((today - IsoWeek1Monday(t.year - 1)) \div 7) + 1>>
         ELSE IF w >= 52 /\ today >= IsoWeek1Monday(t.year + 1)
                THEN <<t.year + 1, 1>>
                ELSE <<t.year, w + 1>>

\* datetime.date()
DateOf(t) == <<t.year, t.month, t.day>>

\* minutes between two datetimes: (a - b).total_seconds() / 60
MinutesBetween(a, b) ==
    (ToOrdinal(a) - ToOrdinal(b)) * 1440
        + (a.hour * 60 + a.minute) - (b.hour * 60 + b.minute)

\* the order of two endTime strings: with zero-padded fields, the order of
\* the field tuples
StrLess(a, b) ==
    LET ka == <<a.year, a.month, a.day, a.hour, a.minute>>
        kb == <<b.year, b.month, b.day, b.hour, b.minute>>
    IN \E i \in 1..5 : ka[i] < kb[i] /\ \A j \in 1..(i - 1) : ka[j] = kb[j]

DT(y, mo, d, h, mi) == [year |-> y, month |-> mo, day |-> d, hour |-> h, minute |-> mi]

cutoff == DT(2024, 12, 1, 0, 0)

-----------------------------------------------------------------------------
(* load_streaming_history                                                  *)

\* the list comprehension keeping the streams at or after the cutoff
FilterCutoff(ss) == SelectSeq(ss, LAMBDA s : MinutesBetween(s.endTime, cutoff) >= 0)

\* list.sort(key = endTime): a stable sort, ascending
RECURSIVE SortByEndTime(_)
SortByEndTime(ss) ==
    IF ss = <<>> THEN <<>>
    ELSE LET rest == SortByEndTime(SubSeq(ss, 1, Len(ss) - 1))
             x == ss[Len(ss)]
             k == Cardinality({i \in 1..Len(rest) : ~StrLess(x.endTime, rest[i].endTime)})
         IN SubSeq(rest, 1, k) \o <<x>> \o SubSeq(rest, k + 1, Len(rest))

\* self.streams after one call, from self.streams before it and the files' records
load_streaming_history(old, records) == SortByEndTime(FilterCutoff(old \o records))

-----------------------------------------------------------------------------
(* get_song_key                                                            *)

NoName == "<absent>"

get_song_key(stream) ==
    <<IF stream.trackName = NoName THEN "Unknown" ELSE stream.trackName,
      IF stream.artistName = NoName THEN "Unknown" ELSE stream.artistName>>

\* stream.get('msPlayed', 0)
MsPlayed(stream) == IF stream.msPlayed = NoMs THEN 0 ELSE stream.msPlayed

\* the keys of a dict filled in one pass over ss, in insertion order
RECURSIVE FirstSeen(_)
FirstSeen(ss) ==
    IF ss = <<>> THEN <<>>
    ELSE LET rest == FirstSeen(SubSeq(ss, 1, Len(ss) - 1))
             key == get_song_key(ss[Len(ss)])
         IN IF \E i \in 1..Len(rest) : rest[i] = key THEN rest ELSE Append(rest, key)

-----------------------------------------------------------------------------
(* analyze_basic_metrics                                                   *)

NewSongStats == [play_count |-> 0, total_ms |-> 0, track_name |-> "", artist_name |-> ""]

RECURSIVE BasicPass(_, _)
BasicPass(ss, n) ==
    IF n = 0 THEN EmptyDict
    ELSE LET acc == BasicPass(ss, n - 1)
             stream == ss[n]
             key == get_song_key(stream)
             old == Get(acc, key, NewSongStats)
             named == old.track_name # ""
         IN Put(acc, key,
                [play_count |-> old.play_count + 1,
                 total_ms |-> old.total_ms + MsPlayed(stream),
                 track_name |-> IF named THEN old.track_name ELSE key[1],
                 artist_name |-> IF named THEN old.artist_name ELSE key[2]])

analyze_basic_metrics(ss) == BasicPass(ss, Len(ss))

-----------------------------------------------------------------------------
(* detect_session_starters                                                 *)

\* StartsSession with > for >=: a gap of exactly 30 minutes starts no session
\* (a faulty variant, which C1_SessionStarts rejects)
StartsSessionStrict(ss, i) ==
    MinutesBetween(ss[i].endTime, ss[i - 1].endTime) > session_gap_minutes

\* the test that makes stream i (i > 1) a session starter
StartsSession(ss, i) ==
    MinutesBetween(ss[i].endTime, ss[i - 1].endTime) >= session_gap_minutes

RECURSIVE SessionPass(_, _)
SessionPass(ss, n) ==
    IF n = 0 THEN EmptyDict
    ELSE LET acc == SessionPass(ss, n - 1)
             key == get_song_key(ss[n])
         IN IF n = 1 \/ StartsSession(ss, n)
              THEN Put(acc, key, Get(acc, key, 0) + 1)
              ELSE acc

\* detect_session_starters touching session_starters[key] for every stream,
\* so that every track played becomes a key
\* (a faulty variant, which C8_KeySets rejects)
DetectTouchingEveryKey(ss) ==
    LET counted == SessionPass(ss, Len(ss))
    IN [k \in {get_song_key(ss[i]) : i \in 1..Len(ss)} |-> Get(counted, k, 0)]

detect_session_starters(ss) == SessionPass(ss, Len(ss))

-----------------------------------------------------------------------------
(* calculate_completion_rates                                              *)

NewCompletion ==
    [total_plays |-> 0, completed_plays |-> 0, skipped_plays |-> 0,
     completion_rate |-> RatZero]

\* IsCompleted with >= for >: a play of exactly 90000 ms counts as completed
\* (a faulty variant, which C7_Completion rejects)
IsCompletedInclusive(ms_played) == ms_played >= CompletionMs

\* the test that counts a play as completed
IsCompleted(ms_played) == ms_played > CompletionMs

RECURSIVE CompletionPass(_, _)
CompletionPass(ss, n) ==
    IF n = 0 THEN EmptyDict
    ELSE LET acc == CompletionPass(ss, n - 1)
             key == get_song_key(ss[n])
             old == Get(acc, key, NewCompletion)
             done == IsCompleted(MsPlayed(ss[n]))
         IN Put(acc, key,
                [old EXCEPT !.total_plays = @ + 1,
                            !.completed_plays = IF done THEN @ + 1 ELSE @,
                            !.skipped_plays = IF done THEN @ ELSE @ + 1])

calculate_completion_rates(ss) ==
    LET counted == CompletionPass(ss, Len(ss))
    IN [key \in DOMAIN counted |->
          IF counted[key].total_plays > 0
            THEN [counted[key] EXCEPT !.completion_rate =
                     Rat(counted[key].completed_plays, counted[key].total_plays)]
            ELSE counted[key]]

-----------------------------------------------------------------------------
(* calculate_listening_density                                             *)

\* daily_listens: key -> date -> count
RECURSIVE DailyPass(_, _)
DailyPass(ss, n) ==
    IF n = 0 THEN EmptyDict
    ELSE LET acc == DailyPass(ss, n - 1)
             key == get_song_key(ss[n])
             date == DateOf(ss[n].endTime)
             dates == Get(acc, key, EmptyDict)
         IN Put(acc, key, Put(dates, date, Get(dates, date, 0) + 1))

calculate_listening_density(ss) ==
    LET daily_listens == DailyPass(ss, Len(ss))
    IN [song_key \in DOMAIN daily_listens |->
          LET dates == daily_listens[song_key]
          IN [multi_listen_days |-> Cardinality({d \in DOMAIN dates : dates[d] >= 2}),
              max_in_one_day |-> IF DOMAIN dates # {} THEN MaxOf(Range(dates)) ELSE 0]]

\* the first value returned: density_scores
DensityScores(details) == [k \in DOMAIN details |-> details[k].multi_listen_days]

-----------------------------------------------------------------------------
(* calculate_consistency                                                   *)

\* f"{date.year}-W{date.isocalendar()[1]}": the calendar year with the ISO
\* week number
WeekLabel(t) == <<t.year, IsoCalendar(t)[2]>>

\* f"{date.year}-{date.month:02d}"
MonthLabel(t) == <<t.year, t.month>>

\* song_weeks: key -> set of week labels
RECURSIVE WeekPass(_, _)
WeekPass(ss, n) ==
    IF n = 0 THEN EmptyDict
    ELSE LET acc == WeekPass(ss, n - 1)
             key == get_song_key(ss[n])
         IN Put(acc, key, Get(acc, key, {}) \cup {WeekLabel(ss[n].endTime)})

\* song_months: key -> set of month labels
RECURSIVE MonthPass(_, _)
MonthPass(ss, n) ==
    IF n = 0 THEN EmptyDict
    ELSE LET acc == MonthPass(ss, n - 1)
             key == get_song_key(ss[n])
         IN Put(acc, key, Get(acc, key, {}) \cup {MonthLabel(ss[n].endTime)})

calculate_consistency(ss) ==
    LET song_weeks == WeekPass(ss, Len(ss))
        song_months == MonthPass(ss, Len(ss))
    IN [k \in DOMAIN song_weeks |->
          [weeks |-> Cardinality(song_weeks[k]),
           months |-> Cardinality(song_months[k])]]

\* the first value returned: consistency_scores
ConsistencyScores(details) == [k \in DOMAIN details |-> details[k].weeks]

-----------------------------------------------------------------------------
(* calculate_weighted_score                                                *)

NoScore ==
    [error |-> "ZeroDivisionError", total |-> RatZero, minutes |-> RatZero,
     sessions |-> RatZero, completion |-> RatZero, density |-> RatZero,
     consistency |-> RatZero]

\* MaxTotalMs with min for max
\* (a faulty variant, which C6_ScoresInUnit rejects)
MinTotalMs(stats) ==
    LET all == {stats[k].total_ms : k \in DOMAIN stats}
    IN CHOOSE x \in all : \A y \in all : x <= y

\* max(s['total_ms'] for s in basic_stats.values())
MaxTotalMs(stats) == MaxOf({stats[k].total_ms : k \in DOMAIN stats})

\* max(d.values()) if d else 1
MaxOrOne(d) == IF DOMAIN d # {} THEN MaxOf(Range(d)) ELSE 1

\* completion_rates.get(song_key, {}).get('completion_rate', 0)
CompletionOf(rates, song_key) ==
    IF song_key \in DOMAIN rates THEN rates[song_key].completion_rate ELSE RatZero

\* the weighted total of the five component scores
WeightedTotal(m, s, c, d, k) ==
    RatAdd(RatAdd(RatAdd(RatAdd(RatMul(m, Rat(25, 100)),
                                RatMul(s, Rat(30, 100))),
                         RatMul(c, Rat(25, 100))),
                  RatMul(d, Rat(15, 100))),
           RatMul(k, Rat(5, 100)))

calculate_weighted_score(song_key, stats, starters, rates, dens, cons) ==
    LET max_ms == MaxTotalMs(stats)
        max_sessions == MaxOrOne(starters)
        max_density == MaxOrOne(dens)
        max_consistency == MaxOrOne(cons)
        sessions == Get(starters, song_key, 0)
        density == Get(dens, song_key, 0)
        consistency == Get(cons, song_key, 0)
    IN IF max_ms = 0 \/ max_sessions = 0 \/ max_density = 0 \/ max_consistency = 0
         THEN NoScore
         ELSE LET minutes_score == RatDiv(Rat(stats[song_key].total_ms, 60000),
                                          Rat(max_ms, 60000))
                  sessions_score == Rat(sessions, max_sessions)
                  completion_score == CompletionOf(rates, song_key)
                  density_score == Rat(density, max_density)
                  consistency_score == Rat(consistency, max_consistency)
              IN [error |-> "none",
                  total |-> WeightedTotal(minutes_score, sessions_score,
                                          completion_score, density_score,
                                          consistency_score),
                  minutes |-> minutes_score,
                  sessions |-> sessions_score,
                  completion |-> completion_score,
                  density |-> density_score,
                  consistency |-> consistency_score]

-----------------------------------------------------------------------------
(* print_ranking                                                           *)

\* SortedDesc as an ascending stable sort read backwards: keys of equal value
\* come out in the reverse of the order they have in keys
\* (a faulty variant, which C9_Ranking rejects)
RECURSIVE SortedDescReversed(_, _)
SortedDescReversed(keys, value) ==
    IF keys = <<>> THEN <<>>
    ELSE LET rest == SortedDescReversed(SubSeq(keys, 1, Len(keys) - 1), value)
             x == keys[Len(keys)]
             k == Cardinality({i \in 1..Len(rest) : RatLess(value[x], value[rest[i]])})
         IN SubSeq(rest, 1, k) \o <<x>> \o SubSeq(rest, k + 1, Len(rest))

\* sorted(keys, key = sort_key, reverse = True): a stable sort, descending:
\* keys of equal value keep the order they have in keys
RECURSIVE SortedDesc(_, _)
SortedDesc(keys, value) ==
    IF keys = <<>> THEN <<>>
    ELSE LET rest == SortedDesc(SubSeq(keys, 1, Len(keys) - 1), value)
             x == keys[Len(keys)]
             k == Cardinality({i \in 1..Len(rest) : ~RatLess(value[rest[i]], value[x])})
         IN SubSeq(rest, 1, k) \o <<x>> \o SubSeq(rest, k + 1, Len(rest))

\* stats = basic_stats[song_key] for each row printed: basic_stats is a
\* defaultdict, so reading a key it lacks inserts the default
ReadRows(stats, rows) ==
    [k \in DOMAIN stats \cup Range(rows) |->
        IF k \in DOMAIN stats THEN stats[k] ELSE NewSongStats]

\* sorted_songs, and basic_stats as the call leaves it
print_ranking(keys, value, n, stats) ==
    LET all == SortedDesc(keys, value)
        top == SubSeq(all, 1, Min(n, Len(all)))
    IN [sorted_songs |-> top, basic_stats |-> ReadRows(stats, top)]

-----------------------------------------------------------------------------
(* generate_reports                                                        *)

\* FilteredSongs with the threshold one too low
\* (a faulty variant, which C5_CohortOnly rejects)
FilteredSongsOffByOne(order, stats) ==
    SelectSeq(order, LAMBDA k : stats[k].play_count >= MinPlays - 1)

\* the keys of filtered_songs, in the order of basic_stats
FilteredSongs(order, stats) ==
    SelectSeq(order, LAMBDA k : stats[k].play_count >= MinPlays)

\* the loop over filtered_songs; it ends at the first error raised
RECURSIVE ScoreLoop(_, _, _)
ScoreLoop(cohort, n, m) ==
    IF n = 0 THEN [error |-> "none", components |-> EmptyDict]
    ELSE LET prev == ScoreLoop(cohort, n - 1, m)
             scores == calculate_weighted_score(cohort[n], m.basic_stats,
                           m.session_starters, m.completion_rates,
                           m.density_scores, m.consistency_scores)
         IN IF prev.error # "none" THEN prev
            ELSE IF scores.error # "none" THEN [prev EXCEPT !.error = scores.error]
            ELSE [prev EXCEPT !.components = Put(prev.components, cohort[n], scores)]

\* everything generate_reports has computed and printed when it returns or raises
generate_reports(ss) ==
    LET stats == analyze_basic_metrics(ss)
        starters == detect_session_starters(ss)
        rates == calculate_completion_rates(ss)
        ddetails == calculate_listening_density(ss)
        cdetails == calculate_consistency(ss)
        m == [basic_stats |-> stats,
              session_starters |-> starters,
              completion_rates |-> rates,
              density_scores |-> DensityScores(ddetails),
              density_details |-> ddetails,
              consistency_scores |-> ConsistencyScores(cdetails),
              consistency_details |-> cdetails]
        cohort == FilteredSongs(FirstSeen(ss), stats)
        loop == ScoreLoop(cohort, Len(cohort), m)
        totals == [k \in DOMAIN loop.components |-> loop.components[k].total]
        by_plays == print_ranking(cohort,
                        [k \in Range(cohort) |-> Rat(stats[k].play_count, 1)],
                        TopN, stats)
        by_minutes == print_ranking(cohort,
                        [k \in Range(cohort) |-> Rat(stats[k].total_ms, 60000)],
                        TopN, by_plays.basic_stats)
        by_score == print_ranking(cohort, totals, TopN, by_minutes.basic_stats)
        locals == m @@ [filtered_songs |-> cohort,
                        score_components |-> loop.components,
                        weighted_scores |-> totals]
    IN IF loop.error # "none"
         THEN locals @@ [rankings |-> <<>>, outcome |-> loop.error]
         ELSE [locals EXCEPT !.basic_stats = by_score.basic_stats]
                  @@ [rankings |-> <<by_plays.sorted_songs, by_minutes.sorted_songs,
                                     by_score.sorted_songs>>,
                      outcome |-> "ok"]

-----------------------------------------------------------------------------
(* The inputs explored.                                                    *)

Event(tr, t, ms) == [trackName |-> tr, artistName |-> "X", endTime |-> t, msPlayed |-> ms]

\* one morning: gaps of 20, 30 (10:20 to 10:50), 15, 45, 50 and 65 minutes
SessionTimes ==
    {DT(2024, 12, 5, 10, 0), DT(2024, 12, 5, 10, 20),
     DT(2024, 12, 5, 10, 50), DT(2024, 12, 5, 11, 5)}

\* a day before the cutoff, and days around two year boundaries
WeekTimes ==
    {DT(2024, 11, 30, 9, 0), DT(2024, 12, 30, 9, 0), DT(2025, 1, 1, 9, 0),
     DT(2025, 1, 2, 9, 0), DT(2025, 12, 30, 9, 0)}

\* absent, the completion threshold itself, and above it
MsValues == {NoMs, CompletionMs, 95000}

\* track A at every sample, track B at some
SessionEvents ==
    {Event("A", t, 95000) : t \in SessionTimes}
        \cup {Event("B", t, 95000) : t \in {DT(2024, 12, 5, 10, 20), DT(2024, 12, 5, 10, 50)}}

CompletionEvents ==
    {Event("A", DT(2024, 12, 5, 10, 0), ms) : ms \in MsValues}
        \cup {Event("B", DT(2024, 12, 5, 10, 0), ms) : ms \in {NoMs, 95000}}

WeekEvents ==
    {Event("A", t, 95000) : t \in WeekTimes}
        \cup {Event("B", t, 95000) : t \in {DT(2024, 12, 30, 9, 0), DT(2025, 1, 1, 9, 0)}}

Inputs ==
    SeqsUpTo(SessionEvents, MaxEvents)
        \cup SeqsUpTo(CompletionEvents, MaxEvents)
        \cup SeqsUpTo(WeekEvents, MaxWeekEvents)

-----------------------------------------------------------------------------
(* The analyzer: construct, then load and report, run after run.           *)

NoReport ==
    [basic_stats |-> EmptyDict, session_starters |-> EmptyDict,
     completion_rates |-> EmptyDict, density_scores |-> EmptyDict,
     density_details |-> EmptyDict, consistency_scores |-> EmptyDict,
     consistency_details |-> EmptyDict, filtered_songs |-> <<>>,
     score_components |-> EmptyDict, weighted_scores |-> EmptyDict,
     rankings |-> <<>>, outcome |-> "none"]

NoRanking ==
    /\ songs = <<>>
    /\ sort_key = EmptyDict
    /\ limit = 0
    /\ basic_stats = EmptyDict
    /\ sorted_songs = <<>>

Init ==
    /\ data \in Inputs
    /\ streams = <<>>
    /\ runs = 0
    /\ phase = "new"
    /\ report = NoReport
    /\ NoRanking

LoadStreamingHistory ==
    /\ phase \in {"new", "reported"}
    /\ runs < MaxRuns
    /\ streams' = load_streaming_history(streams, data)
    /\ runs' = runs + 1
    /\ phase' = "loaded"
    /\ UNCHANGED <<data, report, rankVars>>

GenerateReports ==
    /\ phase = "loaded"
    /\ report' = generate_reports(streams)
    /\ phase' = "reported"
    /\ UNCHANGED <<data, streams, runs, rankVars>>

Next == LoadStreamingHistory \/ GenerateReports

Spec == Init /\ [][Next]_vars

-----------------------------------------------------------------------------
(* print_ranking on its own: any cohort, any sort key, any limit.          *)

SongNames == <<"S1", "S2", "S3", "S4", "S5", "S6">>

SongKeys == {<<SongNames[i], "X">> : i \in 1..MaxSongs}

\* the orders a dict over some of the keys can have
Cohorts ==
    {c \in SeqsUpTo(SongKeys, MaxSongs) :
        \A i, j \in 1..Len(c) : i # j => c[i] # c[j]}

MetricValues == {Rat(0, 1), Rat(1, 2), Rat(1, 1)}

\* basic_stats holds every key of songs, as it does in generate_reports
RankingStats ==
    [k \in SongKeys |->
        [play_count |-> MinPlays, total_ms |-> 0, track_name |-> k[1],
         artist_name |-> k[2]]]

InitRanking ==
    /\ data = <<>>
    /\ streams = <<>>
    /\ runs = 0
    /\ phase = "ranking"
    /\ report = NoReport
    /\ songs \in Cohorts
    /\ sort_key \in [Range(songs) -> MetricValues]
    /\ limit \in 0..MaxLimit
    /\ basic_stats = RankingStats
    /\ sorted_songs = <<>>

PrintRanking ==
    /\ phase = "ranking"
    /\ LET r == print_ranking(songs, sort_key, limit, basic_stats)
       IN /\ sorted_songs' = r.sorted_songs
          /\ basic_stats' = r.basic_stats
    /\ phase' = "printed"
    /\ UNCHANGED <<data, streams, runs, report, songs, sort_key, limit>>

NextRanking == PrintRanking

SpecRanking == InitRanking /\ [][NextRanking]_vars

-----------------------------------------------------------------------------
(* What the properties below speak of, stated from the streams themselves.  *)

Reported == phase = "reported"

\* the track keys that occur in ss
TracksOf(ss) == {get_song_key(ss[i]) : i \in 1..Len(ss)}

\* the positions of ss that hold a play of track k
PlaysOf(ss, k) == {i \in 1..Len(ss) : get_song_key(ss[i]) = k}

\* the positions of ss that lie 30 minutes or more after their predecessor
LongGaps(ss) ==
    {i \in 2..Len(ss) : MinutesBetween(ss[i].endTime, ss[i - 1].endTime) >= 30}

\* the positions of ss that start a session
Starts(ss) == (IF ss = <<>> THEN {} ELSE {1}) \cup LongGaps(ss)

RECURSIVE SumOver(_, _)
SumOver(f, S) ==
    IF S = {} THEN 0
    ELSE LET x == CHOOSE y \in S : TRUE IN f[x] + SumOver(f, S \ {x})

InUnit(q) == q.den > 0 /\ 0 <= q.num /\ q.num <= q.den

Restrict(d, S) == [x \in DOMAIN d \cap S |-> d[x]]

-----------------------------------------------------------------------------
\* C1: on a non-empty time-ordered event sequence, a track's session-start
\* count is 1 for the first event if it is that track's, plus the number of
\* its later events that lie 30 minutes or more after the event before them
\* (whatever that event's track); the counts sum to 1 + the number of such
\* gaps.
C1_SessionStarts ==
    (Reported /\ streams # <<>>) =>
        /\ \A k \in TracksOf(streams) :
              Get(report.session_starters, k, 0)
                  = Cardinality(PlaysOf(streams, k) \cap Starts(streams))
        /\ SumOver(report.session_starters, DOMAIN report.session_starters)
              = 1 + Cardinality(LongGaps(streams))

\* plays of A at 10:00, 10:20 and 11:05 give A a count of 2
C1_Witness ==
    /\ Reported
    /\ Len(streams) = 3
    /\ \A i \in 1..3 : streams[i].trackName = "A"
    /\ streams[1].endTime = DT(2024, 12, 5, 10, 0)
    /\ streams[2].endTime = DT(2024, 12, 5, 10, 20)
    /\ streams[3].endTime = DT(2024, 12, 5, 11, 5)
    /\ report.session_starters[<<"A", "X">>] = 2

\* C2: the scores are those computed with the maxima taken over the eligible
\* cohort only: a track with fewer than 3 plays influences no eligible
\* track's components or total.
C2_CohortMaxima ==
    (Reported /\ report.outcome = "ok") =>
        LET cohort == {k \in TracksOf(streams) : Cardinality(PlaysOf(streams, k)) >= 3}
        IN \A k \in cohort :
              report.score_components[k] =
                  calculate_weighted_score(k,
                      Restrict(report.basic_stats, cohort),
                      Restrict(report.session_starters, cohort),
                      Restrict(report.completion_rates, cohort),
                      Restrict(report.density_scores, cohort),
                      Restrict(report.consistency_scores, cohort))

\* C3: a maximum of 0 is replaced by a denominator of 1: generate_reports
\* raises no division-by-zero fault and every eligible track gets a score.
C3_NoDivisionFault ==
    Reported =>
        /\ report.outcome # "ZeroDivisionError"
        /\ \A k \in TracksOf(streams) :
              Cardinality(PlaysOf(streams, k)) >= 3 => k \in DOMAIN report.score_components

\* C4: a second run on the same analyzer holds the same event sequence as
\* the first, and reports the same.
C4_SecondRunSame ==
    /\ runs >= 1 => streams = load_streaming_history(<<>>, data)
    /\ (Reported /\ runs >= 1) =>
           report = generate_reports(load_streaming_history(<<>>, data))

\* C5: no track with fewer than 3 plays is listed in a ranking or given a
\* weighted score; with no track of 3 plays the rankings are empty and the
\* run does not fail.
C5_CohortOnly ==
    Reported =>
        /\ \A r \in 1..Len(report.rankings) : \A i \in 1..Len(report.rankings[r]) :
              Cardinality(PlaysOf(streams, report.rankings[r][i])) >= 3
        /\ \A k \in DOMAIN report.weighted_scores \cup DOMAIN report.score_components :
              Cardinality(PlaysOf(streams, k)) >= 3
        /\ (\A k \in TracksOf(streams) : Cardinality(PlaysOf(streams, k)) < 3) =>
              /\ report.outcome = "ok"
              /\ report.rankings = <<<<>>, <<>>, <<>>>>

\* a ranking lists a track while another track, played less than 3 times, is left out
C5_Witness ==
    /\ Reported
    /\ report.outcome = "ok"
    /\ report.rankings[1] # <<>>
    /\ \E k \in TracksOf(streams) : Cardinality(PlaysOf(streams, k)) < 3

\* C6: every component score returned, and the total, lies in [0,1].
C6_ScoresInUnit ==
    Reported =>
        \A k \in DOMAIN report.score_components :
            LET c == report.score_components[k]
            IN /\ InUnit(c.minutes) /\ InUnit(c.sessions) /\ InUnit(c.completion)
               /\ InUnit(c.density) /\ InUnit(c.consistency)
               /\ InUnit(c.total)
               /\ report.weighted_scores[k] = c.total

\* a track scored strictly between 0 and 1, next to a track that sets a maximum
C6_Witness ==
    /\ Reported
    /\ \E k \in DOMAIN report.score_components :
          LET c == report.score_components[k]
          IN /\ 0 < c.minutes.num /\ c.minutes.num < c.minutes.den
             /\ 0 < c.total.num /\ c.total.num < c.total.den

\* C7: a play is completed exactly when ms_played > 90000 (absent counts as
\* 0); completed + skipped = total = the track's number of events, and the
\* rate is completed / total, in [0,1].
C7_Completion ==
    Reported =>
        /\ DOMAIN report.completion_rates = TracksOf(streams)
        /\ \A k \in TracksOf(streams) :
              LET c == report.completion_rates[k]
                  over == {i \in PlaysOf(streams, k) :
                              streams[i].msPlayed # NoMs /\ streams[i].msPlayed > 90000}
              IN /\ c.completed_plays = Cardinality(over)
                 /\ c.skipped_plays = Cardinality(PlaysOf(streams, k) \ over)
                 /\ c.total_plays = Cardinality(PlaysOf(streams, k))
                 /\ c.completed_plays + c.skipped_plays = c.total_plays
                 /\ c.completion_rate.num * c.total_plays
                       = c.completed_plays * c.completion_rate.den
                 /\ InUnit(c.completion_rate)

\* a track with a play above the threshold, one at it and one without ms_played
C7_Witness ==
    /\ Reported
    /\ \E k \in TracksOf(streams) :
          /\ \E i \in PlaysOf(streams, k) : streams[i].msPlayed = 90000
          /\ \E i \in PlaysOf(streams, k) : streams[i].msPlayed = NoMs
          /\ \E i \in PlaysOf(streams, k) : streams[i].msPlayed = 95000
          /\ report.completion_rates[k].completed_plays = 1
          /\ report.completion_rates[k].skipped_plays = 2

\* C8 as stated: every per-track map, the session-start map included, has
\* the tracks of the event sequence as its key set.
C8_AllMapsSameKeys ==
    Reported =>
        /\ DOMAIN report.basic_stats = TracksOf(streams)
        /\ DOMAIN report.session_starters = TracksOf(streams)
        /\ DOMAIN report.completion_rates = TracksOf(streams)
        /\ DOMAIN report.density_scores = TracksOf(streams)
        /\ DOMAIN report.density_details = TracksOf(streams)
        /\ DOMAIN report.consistency_scores = TracksOf(streams)
        /\ DOMAIN report.consistency_details = TracksOf(streams)

\* C8 as amended: the maps other than the session-start map have the tracks
\* of the event sequence as their key set; the session-start map's keys are
\* the tracks that start at least one session.
C8_KeySets ==
    Reported =>
        /\ DOMAIN report.basic_stats = TracksOf(streams)
        /\ DOMAIN report.completion_rates = TracksOf(streams)
        /\ DOMAIN report.density_scores = TracksOf(streams)
        /\ DOMAIN report.density_details = TracksOf(streams)
        /\ DOMAIN report.consistency_scores = TracksOf(streams)
        /\ DOMAIN report.consistency_details = TracksOf(streams)
        /\ DOMAIN report.session_starters
              = {get_song_key(streams[i]) : i \in Starts(streams)}
        /\ \A k \in DOMAIN report.session_starters : report.session_starters[k] >= 1

\* a track is played and listed, yet starts no session
C8_Witness ==
    /\ Reported
    /\ report.outcome = "ok"
    /\ \E k \in TracksOf(streams) :
          /\ k \notin DOMAIN report.session_starters
          /\ k \in DOMAIN report.basic_stats
          /\ report.rankings[1] = <<k>>

\* C9: print_ranking lists the first min(limit, cohort size) tracks of the
\* cohort ordered by descending value, tracks of equal value in cohort
\* order, and leaves basic_stats as it was.
C9_Ranking ==
    phase = "printed" =>
        /\ Len(sorted_songs) = Min(limit, Len(songs))
        /\ \A p \in 1..Len(songs) :
              LET before == {q \in 1..Len(songs) :
                                \/ RatLess(sort_key[songs[p]], sort_key[songs[q]])
                                \/ /\ RatEq(sort_key[songs[p]], sort_key[songs[q]])
                                   /\ q < p}
                  rank == Cardinality(before) + 1
              IN rank <= Len(sorted_songs) => sorted_songs[rank] = songs[p]
        /\ basic_stats = RankingStats

\* the list is cut short, its first two tracks tie, and a later track of the
\* cohort is listed ahead of the cohort's first
C9_Witness ==
    /\ phase = "printed"
    /\ limit = 2
    /\ Len(songs) = 3
    /\ Len(sorted_songs) = 2
    /\ RatEq(sort_key[sorted_songs[1]], sort_key[sorted_songs[2]])
    /\ sorted_songs = <<songs[2], songs[3]>>

\* C10: a track's distinct-week count is the number of distinct ISO-8601
\* weeks (ISO year and ISO week number) holding one of its events.
C10_IsoWeeks ==
    Reported =>
        \A k \in TracksOf(streams) :
            report.consistency_scores[k]
                = Cardinality({IsoCalendar(streams[i].endTime) : i \in PlaysOf(streams, k)})

====
